---- MODULE Spec2Model ----
(***************************************************************************)
(* Model of the Agentarium pipeline: MainAgent.run drives four stage       *)
(* agents (research, summarize, write, critique).  Each stage agent is a   *)
(* LangChain agent executor built by get_agent() around the shared LLM and *)
(* the one tool the stage defines.  Python values are tagged records:      *)
(* a str is [kind |-> "str", text |-> <<tokens>>], a dict is               *)
(* [kind |-> "dict", items |-> [key |-> value]], an un-invoked runnable    *)
(* chain is [kind |-> "chain", ...], None is [kind |-> "none"].            *)
(***************************************************************************)
EXTENDS Integers, Sequences, FiniteSets, TLC

(* ---------------------------------------------------------------- bounds *)
\* Iteration cap of the agent executor loop (the library default is larger).
MaxIterations == 2

(* ------------------------------------------------------------ python values *)
NoneVal == [kind |-> "none"]
Str(t) == [kind |-> "str", text |-> t]
PyDict(items) == [kind |-> "dict", items |-> items]
Exc(type) == [kind |-> "exception", type |-> type]

IsPrefix(p, s) == Len(p) <= Len(s) /\ SubSeq(s, 1, Len(p)) = p
Last(s) == s[Len(s)]

(* ------------------------------------------------------------------ inputs *)
Topics == {<<"Quantum Computer">>, <<>>}
\* Action inputs the LLM may write for a tool.
ToolInputs == {<<"q1">>, <<"q2">>}
\* Final answers the LLM may write.
Answers == {<<"a1">>, <<"a2">>}
\* Exceptions of the LLM backend / of parsing its reply.
LlmErrors == {"LlmBackendError", "OutputParserException"}
\* Exceptions of the wikipedia package; str(e) of each.
WikiErrors == {"DisambiguationError", "BareException"}
ExcStr(e) == IF e = "BareException" THEN <<>> ELSE <<e>>

SearchResponses ==
    [raises : {TRUE}, exc : WikiErrors]
    \cup [raises : {FALSE},
          titles : {<<>>, <<"T1">>, <<"T1", "T2">>, <<"T2", "T1">>}]
SummaryResponses ==
    [raises : {TRUE}, exc : WikiErrors]
    \cup [raises : {FALSE}, text : {<<>>, <<"s1", "s2">>}]
FileResponses ==
    {[raises |-> TRUE, exc |-> "FileNotFoundError"], [raises |-> FALSE]}

Stages == {"research", "summarize", "write", "critique"}

(* ------------------------------------------------------------- research tool *)
ErrPrefix == <<"Error during Wikipedia research: ">>
NoResults == <<"No research results found on Wikipedia.">>

\* A wiki_research whose try block ends after the search: a failing summary
\* call is not caught.
wiki_research_summary_unguarded(query, sr, mr) ==
    LET search == [api |-> "search", arg |-> query]
    IN  IF sr.raises
        THEN [raises |-> FALSE,
              ret |-> Str(ErrPrefix \o ExcStr(sr.exc)),
              wiki |-> <<search>>]
        ELSE IF sr.titles = <<>>
        THEN [raises |-> FALSE, ret |-> Str(NoResults), wiki |-> <<search>>]
        ELSE LET summary_call == [api |-> "summary", arg |-> sr.titles[1]]
             IN  IF mr.raises
                 THEN [raises |-> TRUE, exc |-> mr.exc,
                       wiki |-> <<search, summary_call>>]
                 ELSE [raises |-> FALSE,
                       ret |-> Str(mr.text),
                       wiki |-> <<search, summary_call>>]

\* A wiki_research that summarises the last search hit, not the first.
wiki_research_last_title(query, sr, mr) ==
    LET search == [api |-> "search", arg |-> query]
    IN  IF sr.raises
        THEN [raises |-> FALSE,
              ret |-> Str(ErrPrefix \o ExcStr(sr.exc)),
              wiki |-> <<search>>]
        ELSE IF sr.titles = <<>>
        THEN [raises |-> FALSE, ret |-> Str(NoResults), wiki |-> <<search>>]
        ELSE LET summary_call ==
                     [api |-> "summary", arg |-> sr.titles[Len(sr.titles)]]
             IN  IF mr.raises
                 THEN [raises |-> FALSE,
                       ret |-> Str(ErrPrefix \o ExcStr(mr.exc)),
                       wiki |-> <<search, summary_call>>]
                 ELSE [raises |-> FALSE,
                       ret |-> Str(mr.text),
                       wiki |-> <<search, summary_call>>]

\* ResearchAgent.wiki_research.  sr / mr are what wikipedia.search and
\* wikipedia.summary answer when (and if) they are called.  The result is the
\* returned value (or raised exception) and the lookup calls that were issued.
wiki_research(query, sr, mr) ==
    LET search == [api |-> "search", arg |-> query]
    IN  IF sr.raises
        THEN [raises |-> FALSE,
              ret |-> Str(ErrPrefix \o ExcStr(sr.exc)),
              wiki |-> <<search>>]
        ELSE IF sr.titles = <<>>
        THEN [raises |-> FALSE, ret |-> Str(NoResults), wiki |-> <<search>>]
        ELSE LET summary_call == [api |-> "summary", arg |-> sr.titles[1]]
             IN  IF mr.raises
                 THEN [raises |-> FALSE,
                       ret |-> Str(ErrPrefix \o ExcStr(mr.exc)),
                       wiki |-> <<search, summary_call>>]
                 ELSE [raises |-> FALSE,
                       ret |-> Str(mr.text),
                       wiki |-> <<search, summary_call>>]

(* ------------------------------------------------------- prompt-chain tools *)
PromptFile(s) ==
    CASE s = "summarize" -> "prompts/summary_agent_prompt.txt"
      [] s = "write"     -> "prompts/blog_writer_agent_prompt.txt"
      [] s = "critique"  -> "prompts/critic_agent_prompt.txt"
UserTemplate(s) ==
    CASE s = "summarize" -> "Generate a concise summary of the following paragraph produced by the Research Agent: {content_to_summarize}"
      [] s = "write"     -> "Write a blog based on this summary: {summary_content}"
      [] s = "critique"  -> "Critically evaluate the following content: {content}"

\* ChatPromptTemplate.from_messages([...]) | self.llm | StrOutputParser():
\* the composed runnable, not invoked.
Chain(system, user) ==
    [kind |-> "chain", system |-> system, user |-> user]

\* The common body of SummaryAgent.summarize_using_llm,
\* BlogWriterAgent.write_blog_post and CriticAgent.evaluate_content: read the
\* template file (open may raise), build the chain and return it.  The text
\* argument is not used and the LLM is not called.
PromptTool(s, content, fr) ==
    IF fr.raises
    THEN [raises |-> TRUE, exc |-> fr.exc, wiki |-> <<>>]
    ELSE [raises |-> FALSE,
          ret |-> Chain(<<"contents of", PromptFile(s)>>, UserTemplate(s)),
          wiki |-> <<>>]

summarize_using_llm(content_to_summarize, fr) ==
    PromptTool("summarize", content_to_summarize, fr)
write_blog_post(summary_content, fr) == PromptTool("write", summary_content, fr)
evaluate_content(content, fr) == PromptTool("critique", content, fr)

\* A research tool built without return_direct.
ReturnDirect_never(s) == FALSE

\* return_direct of the stage's Tool.from_function(...): only the research
\* tool sets it.
ReturnDirect(s) == s = "research"

(* ------------------------------------------------------------------- state *)
VARIABLES
    pc,            \* statement of MainAgent.run about to execute
    topic,         \* argument of run
    raw_content, summary, blog_content, review,   \* locals of run
    result,        \* value run returned to its caller (None before)
    exc,           \* exception that left run (None if none)
    ex_pc,         \* position inside the running agent executor
    inputs,        \* the executor's prepared inputs dict
    iterations,    \* executor loop counter
    scratch,       \* observations fed back to the planner
    tool_input,    \* action input the LLM chose
    ret,           \* value the executor is about to return
    calls,         \* history: stage invocations [stage, arg]
    rets,          \* history: stage returns [stage, value]
    raised,        \* history: exceptions stages raised [stage, exc]
    net,           \* network calls of the current stage invocation, in order
    tool_run,      \* the last tool function run of the current invocation
    prev           \* history: net and tool_run of the invocation before, when
                   \* the same stage is invoked again (None otherwise)

vars == <<pc, topic, raw_content, summary, blog_content, review, result, exc,
          ex_pc, inputs, iterations, scratch, tool_input, ret,
          calls, rets, raised, net, tool_run, prev>>

locals == <<raw_content, summary, blog_content, review>>
executor == <<ex_pc, inputs, iterations, scratch, tool_input, ret>>
history == <<calls, rets, raised, net, tool_run>>

Init ==
    /\ pc = "idle"
    /\ topic = NoneVal
    /\ raw_content = NoneVal /\ summary = NoneVal
    /\ blog_content = NoneVal /\ review = NoneVal
    /\ result = NoneVal
    /\ exc = NoneVal
    /\ ex_pc = "none"
    /\ inputs = NoneVal
    /\ iterations = 0
    /\ scratch = <<>>
    /\ tool_input = NoneVal
    /\ ret = NoneVal
    /\ calls = <<>> /\ rets = <<>> /\ raised = <<>>
    /\ net = <<>> /\ tool_run = NoneVal
    /\ prev = NoneVal

(* ------------------------------------------------------------ MainAgent.run *)
\* PrepInputs, Merge, Plan, ForceStop and RunTool are the agent executor that
\* get_agent() obtains from initialize_agent(tools, llm, agent=agent_type):
\* the LLM plans, the chosen tool runs, and invoke returns the inputs dict
\* extended with the "output" key.
\* A run that goes back to the writer after the critique.
NextStage_regenerate(s) ==
    CASE s = "research"  -> "summarize"
      [] s = "summarize" -> "write"
      [] s = "write"     -> "critique"
      [] s = "critique"  -> "write"

\* The statement that follows stage s in run (or follows its return).
NextStage(s) ==
    CASE s = "research"  -> "summarize"
      [] s = "summarize" -> "write"
      [] s = "write"     -> "critique"
      [] s = "critique"  -> "return"

\* A run that swallows a stage's exception and goes on with the next stage.
AfterRaise_swallow(s) == NextStage(s)

\* Where run is after stage s raised: run has no try/except, so the exception
\* leaves run.
AfterRaise(s) == "raised"

\* A run that hands the writer the research output and not the summary.
StageInput_skip_summary(s) ==
    CASE s = "research"  -> topic
      [] s = "summarize" -> raw_content
      [] s = "write"     -> raw_content
      [] s = "critique"  -> blog_content

\* The argument run passes to stage s.
StageInput(s) ==
    CASE s = "research"  -> topic
      [] s = "summarize" -> raw_content
      [] s = "write"     -> summary
      [] s = "critique"  -> blog_content

\* An aggregate that stores the summary under "blog" as well.
Aggregate_wrong_blog(raw, summ, blog, rev) ==
    PyDict([raw_research |-> raw, summary |-> summ,
            blog |-> summ, review |-> rev])

\* The dict literal run returns.
Aggregate(raw, summ, blog, rev) ==
    PyDict([raw_research |-> raw, summary |-> summ,
            blog |-> blog, review |-> rev])

\* Chain.prep_inputs of the executor: a dict is taken as the inputs, any other
\* value becomes the single input key.
PrepInputs(arg) ==
    IF arg.kind = "dict" THEN arg.items ELSE [input |-> arg]

\* Chain.prep_outputs: {**inputs, **outputs}.
Merge(f, g) ==
    [k \in DOMAIN f \cup DOMAIN g |-> IF k \in DOMAIN g THEN g[k] ELSE f[k]]

\* agent.run(topic) is called (main.py).
RunCall ==
    /\ pc = "idle"
    /\ \E t \in Topics : topic' = Str(t)
    /\ pc' = "research"
    /\ UNCHANGED <<locals, result, exc, executor, history, prev>>

\* An invoke on an executor that keeps the scratchpad of the invocation
\* before.
Invoke_keeps_scratch ==
    /\ pc \in Stages
    /\ ex_pc = "none"
    /\ calls' = Append(calls, [stage |-> pc, arg |-> StageInput(pc)])
    /\ inputs' = PrepInputs(StageInput(pc))
    /\ iterations' = 0
    /\ scratch' = scratch
    /\ net' = <<>>
    /\ tool_run' = NoneVal
    /\ ex_pc' = "plan"
    /\ UNCHANGED <<pc, topic, locals, result, exc, tool_input, ret,
                   rets, raised, prev>>

\* self.<stage>_agent.get_agent().invoke(<argument>) starts: get_agent builds
\* a new executor, whose loop starts from an empty scratchpad.
Invoke ==
    /\ pc \in Stages
    /\ ex_pc = "none"
    /\ calls' = Append(calls, [stage |-> pc, arg |-> StageInput(pc)])
    /\ inputs' = PrepInputs(StageInput(pc))
    /\ iterations' = 0
    /\ scratch' = <<>>
    /\ net' = <<>>
    /\ tool_run' = NoneVal
    /\ ex_pc' = "plan"
    /\ UNCHANGED <<pc, topic, locals, result, exc, tool_input, ret,
                   rets, raised, prev>>

\* An exception e leaves the running stage.
StageRaises(e) ==
    /\ raised' = Append(raised, [stage |-> pc, exc |-> Exc(e)])
    /\ exc' = Exc(e)
    /\ pc' = AfterRaise(pc)
    /\ ex_pc' = "none"

\* The LLM call of a planning step and the reply it got.
LlmCall(reply) ==
    [stage |-> pc, svc |-> "llm", prompt |-> "react",
     input |-> inputs.input, scratchpad |-> scratch, reply |-> reply]

\* What the executor feeds back when the LLM names a tool the stage lacks.
InvalidToolObservation == <<"is not a valid tool, try one of the tools">>

\* One planning step of the executor loop: the LLM is asked for the next
\* action.  The call (or the parsing of its reply) raises, or the reply names
\* the stage's tool with an input, names a tool the stage does not have, or
\* gives the final answer.
Plan ==
    /\ ex_pc = "plan"
    /\ iterations < MaxIterations
    /\ UNCHANGED prev
    /\ \/ /\ \E e \in LlmErrors :
                /\ StageRaises(e)
                /\ net' = Append(net, LlmCall([type |-> "raise", exc |-> e]))
          /\ UNCHANGED <<topic, locals, result, inputs, iterations, scratch,
                         tool_input, ret, calls, rets, tool_run>>
       \/ /\ \E q \in ToolInputs :
                /\ tool_input' = Str(q)
                /\ net' = Append(net, LlmCall([type |-> "action", text |-> q]))
          /\ ex_pc' = "tool"
          /\ UNCHANGED <<pc, topic, locals, result, exc, inputs, iterations,
                         scratch, ret, calls, rets, raised, tool_run>>
       \/ /\ net' = Append(net, LlmCall([type |-> "invalid_tool"]))
          /\ scratch' = Append(scratch, InvalidToolObservation)
          /\ iterations' = iterations + 1
          /\ UNCHANGED <<pc, topic, locals, result, exc, ex_pc, inputs,
                         tool_input, ret, calls, rets, raised, tool_run>>
       \/ /\ \E a \in Answers :
                /\ ret' = PyDict(Merge(inputs, [output |-> Str(a)]))
                /\ net' = Append(net, LlmCall([type |-> "finish", text |-> a]))
          /\ ex_pc' = "ret"
          /\ UNCHANGED <<pc, topic, locals, result, exc, inputs, iterations,
                         scratch, tool_input, calls, rets, raised, tool_run>>

\* The loop ran out of iterations: the executor stops with a fixed answer.
StoppedAnswer == <<"Agent stopped due to iteration limit or time limit.">>
ForceStop ==
    /\ ex_pc = "plan"
    /\ iterations >= MaxIterations
    /\ ret' = PyDict(Merge(inputs, [output |-> Str(StoppedAnswer)]))
    /\ ex_pc' = "ret"
    /\ UNCHANGED <<pc, topic, locals, result, exc, inputs, iterations,
                   scratch, tool_input, history, prev>>

\* The tool function of stage s applied to x, with the answers of the
\* services it may call.
ToolFn(s, x, r) ==
    CASE s = "research"  -> wiki_research(x.text, r.sr, r.mr)
      [] s = "summarize" -> summarize_using_llm(x, r.fr)
      [] s = "write"     -> write_blog_post(x, r.fr)
      [] s = "critique"  -> evaluate_content(x, r.fr)

\* What the services stage s's tool depends on may answer.
ToolResponses(s) ==
    IF s = "research"
    THEN [sr : SearchResponses, mr : SummaryResponses]
    ELSE [fr : FileResponses]

\* str() of a tool's return value, as it enters the planner's scratchpad.
Observation(v) ==
    IF v.kind = "str" THEN v.text ELSE <<"<runnable sequence>">>

\* The executor runs the stage's tool on the chosen input.  A tool exception
\* leaves the stage; a return_direct tool's value is the stage output;
\* otherwise the value is an observation for the next planning step.
RunTool ==
    /\ ex_pc = "tool"
    /\ \E r \in ToolResponses(pc) :
         LET out == ToolFn(pc, tool_input, r)
         IN  /\ tool_run' = [stage |-> pc, input |-> tool_input,
                             resp |-> r, out |-> out]
             /\ net' = net \o [i \in 1..Len(out.wiki) |->
                    [stage |-> pc, svc |-> "wiki", api |-> out.wiki[i].api,
                     arg |-> out.wiki[i].arg]]
             /\ IF out.raises
                THEN /\ StageRaises(out.exc)
                     /\ UNCHANGED <<iterations, scratch, ret>>
                ELSE IF ReturnDirect(pc)
                THEN /\ ret' = PyDict(Merge(inputs, [output |-> out.ret]))
                     /\ ex_pc' = "ret"
                     /\ UNCHANGED <<pc, exc, raised, iterations, scratch>>
                ELSE /\ scratch' = Append(scratch, Observation(out.ret))
                     /\ iterations' = iterations + 1
                     /\ ex_pc' = "plan"
                     /\ UNCHANGED <<pc, exc, raised, ret>>
    /\ UNCHANGED <<topic, locals, result, inputs, tool_input, calls, rets,
                   prev>>

\* A stage call that gives up on a pending network call: run goes on with
\* whatever the executor holds.
StageReturn_timeout ==
    /\ pc \in Stages
    /\ ex_pc \in {"ret", "plan", "tool"}
    /\ rets' = Append(rets, [stage |-> pc, value |-> ret])
    /\ raw_content' = IF pc = "research" THEN ret ELSE raw_content
    /\ summary' = IF pc = "summarize" THEN ret ELSE summary
    /\ blog_content' = IF pc = "write" THEN ret ELSE blog_content
    /\ review' = IF pc = "critique" THEN ret ELSE review
    /\ pc' = NextStage(pc)
    /\ ex_pc' = "none"
    /\ UNCHANGED <<topic, result, exc, inputs, iterations, scratch,
                   tool_input, ret, calls, raised, net, tool_run, prev>>

\* invoke(...) returns and run assigns the value to the stage's local.
StageReturn ==
    /\ pc \in Stages
    /\ ex_pc = "ret"
    /\ rets' = Append(rets, [stage |-> pc, value |-> ret])
    /\ raw_content' = IF pc = "research" THEN ret ELSE raw_content
    /\ summary' = IF pc = "summarize" THEN ret ELSE summary
    /\ blog_content' = IF pc = "write" THEN ret ELSE blog_content
    /\ review' = IF pc = "critique" THEN ret ELSE review
    /\ pc' = NextStage(pc)
    /\ ex_pc' = "none"
    /\ UNCHANGED <<topic, result, exc, inputs, iterations, scratch,
                   tool_input, ret, calls, raised, net, tool_run, prev>>

\* return {...}
RunReturn ==
    /\ pc = "return"
    /\ result' = Aggregate(raw_content, summary, blog_content, review)
    /\ pc' = "done"
    /\ UNCHANGED <<topic, locals, exc, executor, history, prev>>

Next ==
    \/ RunCall
    \/ Invoke
    \/ Plan
    \/ ForceStop
    \/ RunTool
    \/ StageReturn
    \/ RunReturn

Spec == Init /\ [][Next]_vars

\* The interpreter always takes run's own steps (starting a call, taking its
\* return value, returning); nothing makes a network call (Plan, RunTool)
\* come back.
LiveSpec ==
    /\ Spec
    /\ WF_vars(Invoke)
    /\ WF_vars(ForceStop)
    /\ WF_vars(StageReturn)
    /\ WF_vars(RunReturn)

(* ------------------------------------------- the research stage, called twice *)
\* research_agent.get_agent().invoke(topic) on its own, as in the module's
\* usage example.
ResearchInvoke == pc = "research" /\ Invoke

\* The first invocation has returned; the caller invokes the stage again on
\* the same topic.
CallAgain ==
    /\ pc = NextStage("research")
    /\ ex_pc = "none"
    /\ Len(calls) = 1
    /\ pc' = "research"
    /\ prev' = [net |-> net, tool_run |-> tool_run]
    /\ UNCHANGED <<topic, locals, result, exc, executor, history>>

NextTwice ==
    \/ RunCall
    \/ ResearchInvoke
    \/ Plan
    \/ ForceStop
    \/ RunTool
    \/ StageReturn
    \/ CallAgain

SpecTwice == Init /\ [][NextTwice]_vars

(* ------------------------------------------------------------------ claims *)
StageOrder == <<"research", "summarize", "write", "critique">>

\* C1: in every execution of run the stages are invoked in the order
\* research, summarize, write, critique, each at most once (exactly once when
\* run completes), a stage is invoked only after every earlier stage has
\* returned, and nothing is invoked after the critique.
C1_StagesOnceInOrder ==
    /\ Len(calls) <= Len(StageOrder)
    /\ \A i \in 1..Len(calls) : calls[i].stage = StageOrder[i]
    /\ \A i \in 1..Len(rets) : rets[i].stage = StageOrder[i]
    /\ Len(rets) <= Len(calls)
    /\ Len(calls) <= Len(rets) + 1
    /\ pc \in {"return", "done"} => Len(calls) = 4 /\ Len(rets) = 4

C1_Witness == pc = "done" /\ Len(calls) = 4 /\ Len(rets) = 4

\* C2: the argument of each stage invocation is the value the stage before it
\* returned, unchanged; the research stage's argument is the topic.
C2_InputIsPreviousOutput ==
    \A i \in 1..Len(calls) :
        calls[i].arg = IF i = 1 THEN topic ELSE rets[i - 1].value

C2_Witness ==
    /\ Len(calls) = 4
    /\ rets[1].value # rets[2].value
    /\ rets[2].value # rets[3].value
    /\ calls[3].arg = rets[2].value

StageLocal(s) ==
    CASE s = "research"  -> raw_content
      [] s = "summarize" -> summary
      [] s = "write"     -> blog_content
      [] s = "critique"  -> review

\* C3: once a stage raises, run is over with exactly that exception: the stage
\* is not invoked again, it yields no value, no later stage is invoked and no
\* aggregate is returned.
C3_RaiseAborts ==
    /\ pc = "raised" <=> raised # <<>>
    /\ raised # <<>> =>
          /\ Len(raised) = 1
          /\ exc = raised[1].exc
          /\ result = NoneVal
          /\ Last(calls).stage = raised[1].stage
          /\ Cardinality({i \in 1..Len(calls) :
                             calls[i].stage = raised[1].stage}) = 1
          /\ Len(rets) = Len(calls) - 1
          /\ StageLocal(raised[1].stage) = NoneVal
          /\ ex_pc = "none"
    /\ raised = <<>> => exc = NoneVal

C3_Witness ==
    /\ pc = "raised"
    /\ raised[1].stage = "write"
    /\ exc = Exc("FileNotFoundError")

AggregateKeys == {"raw_research", "summary", "blog", "review"}

\* C4 (amended): when all four stages succeed the aggregate run returns has
\* exactly the keys raw_research, summary, blog, review, each holding the value
\* the corresponding stage of this run returned; nothing is returned otherwise.
C4_AggregateOfStageOutputs ==
    /\ result # NoneVal <=> pc = "done"
    /\ pc = "done" =>
          /\ result.kind = "dict"
          /\ DOMAIN result.items = AggregateKeys
          /\ result.items["raw_research"] = rets[1].value
          /\ result.items["summary"] = rets[2].value
          /\ result.items["blog"] = rets[3].value
          /\ result.items["review"] = rets[4].value

C4_Witness ==
    /\ pc = "done"
    /\ result.items["summary"] # result.items["blog"]
    /\ result.items["raw_research"] # result.items["review"]

\* C4 as stated: the four keys are research, summary, blog, review.
C4_AsStated ==
    pc = "done" =>
        DOMAIN result.items = {"research", "summary", "blog", "review"}

(* ---- the research tool *)
\* The run of wiki_research in the current research invocation, if any.
ResearchRan == tool_run # NoneVal /\ tool_run.stage = "research"
SummaryCalls(w) == {i \in 1..Len(w) : w[i].api = "summary"}
SearchCalls(w) == {i \in 1..Len(w) : w[i].api = "search"}
\* The lookup service raised in a call wiki_research issued.
LookupRaised(run) ==
    \/ run.resp.sr.raises
    \/ SummaryCalls(run.out.wiki) # {} /\ run.resp.mr.raises

\* C5: when wikipedia.search or wikipedia.summary raises, wiki_research does
\* not raise and returns a str that starts with
\* "Error during Wikipedia research:".
C5_LookupErrorBecomesString ==
    ResearchRan /\ LookupRaised(tool_run) =>
        /\ ~tool_run.out.raises
        /\ tool_run.out.ret.kind = "str"
        /\ IsPrefix(ErrPrefix, tool_run.out.ret.text)
        /\ raised = <<>>

C5_Witness ==
    /\ ResearchRan
    /\ ~tool_run.resp.sr.raises
    /\ SummaryCalls(tool_run.out.wiki) # {}
    /\ tool_run.resp.mr.raises
    /\ tool_run.out.ret = Str(ErrPrefix \o <<"DisambiguationError">>)

\* C6: when the search returns no title, wiki_research returns exactly the
\* sentinel, requests no summary and does not raise; when it returns titles,
\* exactly one summary is requested, for the first title.
C6_EmptySearchSentinel ==
    ResearchRan /\ ~tool_run.resp.sr.raises =>
        LET w == tool_run.out.wiki
            titles == tool_run.resp.sr.titles
        IN  /\ Cardinality(SearchCalls(w)) = 1
            /\ w[1] = [api |-> "search", arg |-> tool_run.input.text]
            /\ titles = <<>> =>
                  /\ ~tool_run.out.raises
                  /\ tool_run.out.ret = Str(NoResults)
                  /\ SummaryCalls(w) = {}
            /\ titles # <<>> =>
                  /\ Cardinality(SummaryCalls(w)) = 1
                  /\ \A i \in SummaryCalls(w) : w[i].arg = titles[1]

C6_Witness ==
    /\ ResearchRan
    /\ ~tool_run.resp.sr.raises
    /\ tool_run.resp.sr.titles = <<>>
    /\ ex_pc = "ret"
    /\ ret.items["output"] = Str(NoResults)

\* C7 as stated: for a non-empty topic the research tool returns a non-empty
\* str, whatever the lookup service answers.
C7_AsStated ==
    ResearchRan /\ topic.text # <<>> =>
        /\ ~tool_run.out.raises
        /\ tool_run.out.ret.kind = "str"
        /\ tool_run.out.ret.text # <<>>

(* ---- values *)
IsText(v) == v.kind = "str"

\* C8 as stated: every value a stage or its tool returns, every value passed
\* to a stage and every value stored in the aggregate is a plain str.
C8_AsStated ==
    /\ \A i \in 1..Len(calls) : IsText(calls[i].arg)
    /\ \A i \in 1..Len(rets) : IsText(rets[i].value)
    /\ (tool_run # NoneVal /\ ~tool_run.out.raises) => IsText(tool_run.out.ret)
    /\ pc = "done" => \A k \in DOMAIN result.items : IsText(result.items[k])

(* ---- network calls *)
\* The current invocation is of stage s: net and tool_run are about it.
Current(s) == calls # <<>> /\ Last(calls).stage = s
LlmCalls == {i \in 1..Len(net) : net[i].svc = "llm"}
WikiCalls == {i \in 1..Len(net) : net[i].svc = "wiki"}

\* C9 (amended): an invocation of the research stage calls the LLM backend at
\* least once before any lookup (the planning step that chooses the tool
\* input); once the lookup has run no LLM call follows and the string the
\* lookup returned is the stage's output, unchanged.
C9_LookupReturnedDirectly ==
    Current("research") =>
        /\ \A i \in WikiCalls :
              /\ \E j \in LlmCalls : j < i
              /\ \A j \in LlmCalls : j < i
        /\ WikiCalls # {} <=> tool_run # NoneVal
        /\ tool_run # NoneVal =>
              /\ ex_pc \in {"ret", "none"}
              /\ pc \in {"research", "summarize"}
              /\ ex_pc = "ret" => ret.items["output"] = tool_run.out.ret
              /\ ex_pc = "none" =>
                    rets[1].value.items["output"] = tool_run.out.ret

C9_Witness ==
    /\ Current("research")
    /\ Len(rets) = 1
    /\ tool_run # NoneVal
    /\ Cardinality(WikiCalls) = 2
    /\ Cardinality(LlmCalls) = 2
    /\ rets[1].value.items["output"] = Str(<<"s1", "s2">>)

\* C9 as stated: an invocation of the research stage issues no call to the
\* LLM backend.
C9_AsStated == Current("research") => LlmCalls = {}

\* The invocation of stage s has returned and the next has not started.
Returned(s) == Current(s) /\ rets # <<>> /\ Last(rets).stage = s

\* C10 as stated: an invocation of the summary, blog-writer or critic stage
\* issues exactly one LLM call, whose system message is the role's template
\* and whose user message carries the stage input, and the stage output is
\* the text of that call's reply.
C10_AsStated ==
    \A s \in {"summarize", "write", "critique"} :
        Returned(s) =>
            /\ Cardinality(LlmCalls) = 1
            /\ \A i \in LlmCalls :
                  /\ net[i].prompt = "chat"
                  /\ net[i].system = <<"contents of", PromptFile(s)>>
                  /\ net[i].user = <<UserTemplate(s), Last(calls).arg>>
                  /\ Last(rets).value = Str(net[i].reply.text)

(* ---- the research stage, invoked twice on one topic (SpecTwice) *)
BothReturned == Len(rets) = 2 /\ prev # NoneVal
LlmOf(n) == {i \in 1..Len(n) : n[i].svc = "llm"}
Summaries(run) ==
    {run.out.wiki[i].arg : i \in SummaryCalls(run.out.wiki)}

\* The encyclopedia is unchanged between the two invocations: equal lookup
\* requests got equal answers.
WikipediaUnchanged ==
    (prev.tool_run # NoneVal /\ tool_run # NoneVal) =>
        /\ prev.tool_run.input = tool_run.input =>
              prev.tool_run.resp.sr = tool_run.resp.sr
        /\ Summaries(prev.tool_run) \cap Summaries(tool_run) # {} =>
              prev.tool_run.resp.mr = tool_run.resp.mr

\* The LLM backend answered equal prompts equally in the two invocations.
LlmUnchanged ==
    \A i \in LlmOf(prev.net), j \in LlmOf(net) :
        (/\ prev.net[i].input = net[j].input
         /\ prev.net[i].scratchpad = net[j].scratchpad)
            => prev.net[i].reply = net[j].reply

\* C11 (amended): two invocations of the research stage on the same topic,
\* with the encyclopedia unchanged and the LLM backend answering equal prompts
\* equally, return identical values: the second invocation starts from a fresh
\* executor and nothing of the first reaches it.
C11_SameTopicSameOutput ==
    (BothReturned /\ WikipediaUnchanged /\ LlmUnchanged) =>
        /\ rets[1].value = rets[2].value
        /\ calls[1].arg = calls[2].arg

C11_Witness ==
    /\ BothReturned
    /\ WikipediaUnchanged
    /\ LlmUnchanged
    /\ prev.tool_run # NoneVal
    /\ tool_run # NoneVal
    /\ Cardinality(LlmOf(net)) = 2
    /\ rets[2].value.items["output"] = Str(<<"s1", "s2">>)
    /\ rets[1].value = rets[2].value

\* C11 as stated: two invocations of the research stage on the same topic,
\* with the encyclopedia unchanged, return identical values.
C11_AsStated ==
    (BothReturned /\ WikipediaUnchanged) => rets[1].value = rets[2].value

(* ---- blocking calls (LiveSpec) *)
\* A network call of the running stage is pending.
Pending == pc \in Stages /\ ex_pc \in {"plan", "tool"}

\* C12: run is done, with the aggregate delivered, exactly when all four stage
\* calls have returned (and then it does get there); while a stage is running
\* nothing is delivered to the caller, and run leaves a stage only by that
\* stage's call returning or raising, so a call that never comes back keeps
\* run in its stage with no later stage started.
C12_BlocksUntilStageReturns ==
    /\ [](pc \in Stages => result = NoneVal /\ exc = NoneVal)
    /\ [](pc = "done" => Len(rets) = 4 /\ result # NoneVal)
    /\ [][(pc \in Stages /\ pc' # pc) =>
             \/ /\ ex_pc = "ret"
                /\ rets' = Append(rets, [stage |-> pc, value |-> ret])
             \/ /\ raised' = Append(raised, [stage |-> pc, exc |-> exc'])
                /\ pc' = "raised"]_vars
    /\ [][Pending => calls' = calls /\ rets' = rets /\ result' = result]_vars
    /\ (Len(rets) = 4) ~> (pc = "done")
    /\ \A k \in 1..3 : (Len(rets) = k) ~> (Len(calls) = k + 1)

C12_Witness ==
    /\ Pending
    /\ pc = "write"
    /\ ex_pc = "tool"
    /\ Len(rets) = 2
    /\ result = NoneVal
    /\ exc = NoneVal

====
